---- MODULE Spec2Model ----
(***************************************************************************)
(* Session orchestration of the voice conversation gateway.                *)
(*                                                                         *)
(* backend/main.py: the /ws endpoint.  One handler coroutine per           *)
(* connection (websocket_endpoint) and at most one stream_tts task per     *)
(* connection, all scheduled by one asyncio event loop.  An action of this *)
(* module is the code a coroutine runs between two suspension points       *)
(* (await receive, await send_*, await tts_task, the awaits of stream_tts).*)
(*                                                                         *)
(* server/app.py: the /ws/audio gateway.  One audio_gateway coroutine per   *)
(* connection, each with its own ConversationPipeline; a turn is processed *)
(* inside the handler of the stop message.                                 *)
(*                                                                         *)
(* A behaviour is a run of one of the two apps.                            *)
(*                                                                         *)
(* A text is a sequence of tokens: the whitespace token " " or a word.     *)
(***************************************************************************)
EXTENDS Naturals, Sequences, FiniteSets

\* ---- bounds of the model ------------------------------------------------
MaxFrames == 3      \* inbound frames received over all connections
MaxChunks == 1      \* audio chunks one synthesis yields at most
MaxCalls == 5       \* calls made on an object that is driven on its own

\* ---- program constants ---------------------------------------------------
max_history == 6    \* ConversationManager.max_history
_max_history == 6   \* ConversationalResponder._max_history

Sessions == {"A", "B"}

\* What the recognizer may report as the text of a finished utterance: nothing,
\* whitespace only, a word with whitespace before it.
Texts == {<< >>, <<" ">>, <<" ", "hi">>}

\* ---- str.strip(), str.split() --------------------------------------------
RECURSIVE LStrip(_)
LStrip(t) == IF t # << >> /\ Head(t) = " " THEN LStrip(Tail(t)) ELSE t

RECURSIVE RStrip(_)
RStrip(t) ==
    IF t # << >> /\ t[Len(t)] = " " THEN RStrip(SubSeq(t, 1, Len(t) - 1)) ELSE t

Strip(t) == RStrip(LStrip(t))

Words(t) == SelectSeq(t, LAMBDA c : c # " ")

\* Python truthiness of an Optional[str]: None and "" are falsy.
None == <<"None">>
Truthy(t) == t # None /\ t # << >>

\* ---- ConversationManager (conversation.py) -------------------------------
Utterance(role, text) == [role |-> role, text |-> text]

\* Keeps the oldest max_history turns instead of the newest.
_appendKeepOldest(h, role, text) ==
    LET h1 == Append(h, Utterance(role, text))
    IN  IF Len(h1) > max_history THEN SubSeq(h1, 1, max_history) ELSE h1

_append(h, role, text) ==
    LET h1 == Append(h, Utterance(role, text))
    IN  IF Len(h1) > max_history
        THEN SubSeq(h1, Len(h1) - max_history + 1, Len(h1))
        ELSE h1

\* The replies, each one token: none of them is blank.
StillListening == <<"I'm still listening. Could you repeat that?">>
Greeting == <<"Hello! How can I help you today?">>
ItsCurrently == <<"It's currently HH:MM. What else would you like to talk about?">>
OfflineDemo == <<"I'm an offline demo assistant built for streaming conversations.">>
InterestingQuestion == <<"That's an interesting question.">>
TellMeMore == <<"Tell me more so I can respond with something helpful.">>
IHearYou == <<"I hear you.">>

HasWord(t, ws) == \E i \in 1..Len(t) : t[i] \in ws

_build_response(user_text) ==
    IF HasWord(user_text, {"hello", "hi", "hey"}) THEN Greeting
    ELSE IF HasWord(user_text, {"time"}) THEN ItsCurrently
    ELSE IF \E i \in 1..(Len(user_text) - 2) :
                user_text[i] = "your" /\ user_text[i + 1] = " " /\ user_text[i + 2] = "name"
        THEN OfflineDemo
    ELSE IF user_text[Len(user_text)] = "?" THEN InterestingQuestion
    ELSE IF Len(Words(user_text)) < 4 THEN TellMeMore
    ELSE IHearYou

\* generate_response: the reply and the history it leaves.
generate_response(h, text) ==
    LET user_text == Strip(text)
    IN  IF user_text = << >>
        THEN [reply |-> StillListening, history |-> h]
        ELSE LET response == _build_response(user_text)
             IN  [reply |-> response,
                  history |-> _append(_append(h, "user", user_text), "assistant", response)]


\* The engine classes, in the order get_pipeline constructs them.
Engines == <<"stt", "responder", "tts">>

\* ---- state of the /ws endpoint (main.py) ---------------------------------
VARIABLES
    pc,             \* per connection: where websocket_endpoint is suspended
    ctx,            \* per connection: the caller cancel_tts returns to
    msg_type,       \* per connection: msg_type of the text frame being handled
    final_result,   \* per connection: the local final_result
    response_text,  \* per connection: the local response_text
    rec,            \* per connection: 1 if the recognizer holds audio of an open utterance
    tts_task,       \* per connection: the local tts_task (0 is None)
    tasks,          \* per connection: every stream_tts task created, by creation order
    playback_lock,  \* per connection: the task holding playback_lock (0: free)
    client_state,   \* per connection: websocket.client_state
    out,            \* per connection: the frames written to the connection, in order
    history,        \* conversation_manager.history (one manager per app)
    nframes,        \* inbound frames received so far
    app,            \* the app this process runs: "backend" (/ws) or "server" (/ws/audio)
    g_pc,           \* per connection: where audio_gateway is suspended
    g_chunks,       \* per connection: pipeline._chunks
    g_history,      \* per connection: pipeline._history
    g_result,       \* per connection: result["reply"] of the stop handler
    g_msg_type,     \* per connection: the last frame taken (its message_type, or bytes)
    g_out,          \* per connection: the frames written to the connection, in order
    arrived,        \* per connection: the samples received since the utterance began
    ncalls,         \* calls made on an object that is driven on its own
    appended,       \* every Utterance appended to history since the last reset
    f_engines,      \* factory._stt, ._responder, ._tts: the instance held (0 is None)
    constructed,    \* per engine class: the instances constructed so far
    pipelines       \* every ConversationPipeline get_pipeline has returned

bvars == <<pc, ctx, msg_type, final_result, response_text, rec, tts_task, tasks, playback_lock,
           client_state, out, history>>

gvars == <<g_pc, g_chunks, g_history, g_result, g_msg_type, g_out, arrived>>

uvars == <<ncalls, appended>>

fvars == <<f_engines, constructed, pipelines>>

vars == <<bvars, gvars, uvars, fvars, nframes, app>>

Msg(type, text, turn) == [type |-> type, text |-> text, turn |-> turn]

\* ---- asyncio.Task --------------------------------------------------------
\* asyncio.create_task(stream_tts()): scheduled, not yet run; `text` is the
\* response_text the closure reads.
NewTask(text) == [pc |-> "created", must_cancel |-> FALSE, left |-> 0, text |-> text]

\* A done() that is false for a task that ended with an exception.
TaskDoneUnlessFailed(t) == t.pc \in {"finished", "cancelled"}

TaskDone(t) == t.pc \in {"finished", "cancelled", "failed"}

\* A cancel() that requests nothing.
TaskCancelForgotten(t) == t

\* Task.cancel(): a task that is not done gets CancelledError at its next step.
TaskCancel(t) == IF TaskDone(t) THEN t ELSE [t EXCEPT !.must_cancel = TRUE]

\* cancel_tts, line 51: `if tts_task and not tts_task.done()`
NeedsCancelNever(ref, ts) == FALSE
NeedsCancel(ref, ts) == ref # 0 /\ ~TaskDone(ts[ref])

\* cancel_tts, line 55: `await tts_task` returns once the task is done.
AwaitReturnsAtOnce(t) == TRUE
AwaitReturns(t) == TaskDone(t)

Unfinished(s) == {k \in 1..Len(tasks[s]) : ~TaskDone(tasks[s][k])}

\* The turn a finalized transcript opens: its reply is the next task created.
TurnOf(s) == Len(tasks[s]) + 1

\* Nothing has connected and nothing has been called yet.
Idle ==
    /\ pc = [s \in Sessions |-> "connecting"]
    /\ ctx = [s \in Sessions |-> "none"]
    /\ msg_type = [s \in Sessions |-> "none"]
    /\ final_result = [s \in Sessions |-> None]
    /\ response_text = [s \in Sessions |-> None]
    /\ rec = [s \in Sessions |-> 0]
    /\ tts_task = [s \in Sessions |-> 0]
    /\ tasks = [s \in Sessions |-> << >>]
    /\ playback_lock = [s \in Sessions |-> 0]
    /\ client_state = [s \in Sessions |-> "CONNECTING"]
    /\ out = [s \in Sessions |-> << >>]
    /\ history = << >>
    /\ nframes = 0
    /\ g_pc = [s \in Sessions |-> "connecting"]
    /\ g_chunks = [s \in Sessions |-> << >>]
    /\ g_history = [s \in Sessions |-> << >>]
    /\ g_result = [s \in Sessions |-> None]
    /\ g_msg_type = [s \in Sessions |-> "none"]
    /\ g_out = [s \in Sessions |-> << >>]
    /\ arrived = [s \in Sessions |-> << >>]
    /\ ncalls = 0
    /\ appended = << >>
    /\ f_engines = [e \in 1..Len(Engines) |-> 0]
    /\ constructed = [e \in 1..Len(Engines) |-> 0]
    /\ pipelines = << >>

Init == Idle /\ app \in {"backend", "server"}

\* A step of the /ws endpoint: the backend app runs, the gateway has no state.
Backend == app = "backend" /\ UNCHANGED <<gvars, uvars, fvars, app>>

\* ---- cancel_tts -----------------------------------------------------------
\* What follows the return of cancel_tts, up to the next await: the session
\* loop's next send, or the end of the finally block.
AfterCancel(s, c, o, fr) ==
    IF c = "final" THEN
        /\ out' = [out EXCEPT ![s] = Append(o, Msg("final_transcript", fr, TurnOf(s)))]
        /\ pc' = [pc EXCEPT ![s] = "send_final"]
    ELSE IF c = "reset" THEN
        /\ out' = [out EXCEPT ![s] = Append(o, Msg("session_reset", << >>, 0))]
        /\ pc' = [pc EXCEPT ![s] = "send_reset"]
    ELSE
        /\ out' = [out EXCEPT ![s] = o]
        /\ pc' = [pc EXCEPT ![s] = "done"]

\* cancel_tts from line 58 on: drop the reference, notify a connected client.
AfterAwait(s, c, cs, fr) ==
    /\ tts_task' = [tts_task EXCEPT ![s] = 0]
    /\ ctx' = [ctx EXCEPT ![s] = c]
    /\ IF cs = "CONNECTED" THEN
           /\ out' = [out EXCEPT ![s] = Append(@, Msg("clear_audio_queue", << >>, 0))]
           /\ pc' = [pc EXCEPT ![s] = "send_clear"]
       ELSE AfterCancel(s, c, out[s], fr)

\* cancel_tts from its first line to its first await.
EnterCancel(s, c, cs, fr) ==
    IF NeedsCancel(tts_task[s], tasks[s]) THEN
        /\ tasks' = [tasks EXCEPT ![s][tts_task[s]] = TaskCancel(@)]
        /\ pc' = [pc EXCEPT ![s] = "cancel_wait"]
        /\ ctx' = [ctx EXCEPT ![s] = c]
        /\ UNCHANGED <<tts_task, out>>
    ELSE
        /\ AfterAwait(s, c, cs, fr)
        /\ UNCHANGED tasks

\* `await tts_task` returns (CancelledError is swallowed).
TaskAwaited(s) ==
    /\ Backend
    /\ pc[s] = "cancel_wait"
    /\ AwaitReturns(tasks[s][tts_task[s]])
    /\ AfterAwait(s, ctx[s], client_state[s], final_result[s])
    /\ UNCHANGED <<msg_type, final_result, response_text, rec, tasks, playback_lock,
                   client_state, history, nframes>>

\* `await websocket.send_text(clear_audio_queue)` returns, or raises and the
\* exception is swallowed; cancel_tts returns.
ClearSent(s) ==
    /\ Backend
    /\ pc[s] = "send_clear"
    /\ AfterCancel(s, ctx[s], out[s], final_result[s])
    /\ ctx' = [ctx EXCEPT ![s] = "none"]
    /\ UNCHANGED <<msg_type, final_result, response_text, rec, tts_task, tasks,
                   playback_lock, client_state, history, nframes>>

\* ---- websocket_endpoint: the session loop --------------------------------
\* `await websocket.accept()`, then the locals of the handler.
Accept(s) ==
    /\ Backend
    /\ pc[s] = "connecting"
    /\ pc' = [pc EXCEPT ![s] = "receive"]
    /\ client_state' = [client_state EXCEPT ![s] = "CONNECTED"]
    /\ UNCHANGED <<ctx, msg_type, final_result, response_text, rec, tts_task, tasks,
                   playback_lock, out, history, nframes>>

Receiving(s) == pc[s] = "receive" /\ nframes < MaxFrames

\* Back at `await websocket.receive()`.  message, msg_type, final_result and
\* response_text are dead there (each is assigned before it is read again),
\* so they are held at their initial values while the loop waits.
BackToReceive(s) ==
    /\ pc' = [pc EXCEPT ![s] = "receive"]
    /\ msg_type' = [msg_type EXCEPT ![s] = "none"]
    /\ final_result' = [final_result EXCEPT ![s] = None]
    /\ response_text' = [response_text EXCEPT ![s] = None]

\* A websocket.disconnect frame: WebSocketDisconnect is raised, the finally
\* block runs cancel_tts.
ReceiveDisconnect(s) ==
    /\ Backend
    /\ Receiving(s)
    /\ nframes' = nframes + 1
    /\ msg_type' = [msg_type EXCEPT ![s] = "disconnect"]
    /\ client_state' = [client_state EXCEPT ![s] = "DISCONNECTED"]
    /\ EnterCancel(s, "finally", "DISCONNECTED", final_result[s])
    /\ UNCHANGED <<final_result, response_text, rec, playback_lock, history>>

\* {"type": "ping"}
ReceivePing(s) ==
    /\ Backend
    /\ Receiving(s)
    /\ nframes' = nframes + 1
    /\ msg_type' = [msg_type EXCEPT ![s] = "ping"]
    /\ out' = [out EXCEPT ![s] = Append(@, Msg("pong", << >>, 0))]
    /\ pc' = [pc EXCEPT ![s] = "send_pong"]
    /\ UNCHANGED <<ctx, final_result, response_text, rec, tts_task, tasks, playback_lock,
                   client_state, history>>

\* {"type": "stop"} or {"type": "reset"}: lines 81-84 up to the first await.
ReceiveStopOrReset(s, type) ==
    /\ Backend
    /\ Receiving(s)
    /\ nframes' = nframes + 1
    /\ msg_type' = [msg_type EXCEPT ![s] = type]
    /\ rec' = [rec EXCEPT ![s] = 0]
    /\ history' = << >>
    /\ EnterCancel(s, "reset", client_state[s], final_result[s])
    /\ UNCHANGED <<final_result, response_text, playback_lock, client_state>>

\* Handles a text frame of any other type as lines 82-83 handle a reset.
ReceiveOtherResets(s) ==
    /\ Backend
    /\ Receiving(s)
    /\ nframes' = nframes + 1
    /\ msg_type' = [msg_type EXCEPT ![s] = "unknown"]
    /\ rec' = [rec EXCEPT ![s] = 0]
    /\ history' = << >>
    /\ UNCHANGED <<pc, ctx, final_result, response_text, tts_task, tasks, playback_lock,
                   client_state, out>>

\* A text frame of any other type ("start", an unknown type): `continue`.
ReceiveOther(s) ==
    /\ Backend
    /\ Receiving(s)
    /\ nframes' = nframes + 1
    /\ msg_type' = [msg_type EXCEPT ![s] = "unknown"]
    /\ UNCHANGED <<pc, ctx, final_result, response_text, rec, tts_task, tasks, playback_lock,
                   client_state, out, history>>

\* A binary frame the recognizer does not end the utterance on:
\* accept_audio returns (None, partial).
ReceiveAudioPartial(s, partial) ==
    /\ Backend
    /\ Receiving(s)
    /\ nframes' = nframes + 1
    /\ rec' = [rec EXCEPT ![s] = 1]
    /\ IF Truthy(partial) THEN
           /\ out' = [out EXCEPT ![s] = Append(@, Msg("partial_transcript", partial, 0))]
           /\ pc' = [pc EXCEPT ![s] = "send_partial"]
           /\ msg_type' = [msg_type EXCEPT ![s] = "bytes"]
       ELSE /\ msg_type' = [msg_type EXCEPT ![s] = "none"]
            /\ UNCHANGED <<out, pc>>
    /\ UNCHANGED <<ctx, final_result, response_text, tts_task, tasks, playback_lock,
                   client_state, history>>

\* A binary frame that ends the utterance: accept_audio returns (final, None).
ReceiveAudioFinal(s, final) ==
    /\ Backend
    /\ Receiving(s)
    /\ nframes' = nframes + 1
    /\ rec' = [rec EXCEPT ![s] = 0]
    /\ IF Truthy(final) THEN
           /\ msg_type' = [msg_type EXCEPT ![s] = "bytes"]
           /\ final_result' = [final_result EXCEPT ![s] = final]
           /\ EnterCancel(s, "final", client_state[s], final)
       ELSE /\ msg_type' = [msg_type EXCEPT ![s] = "none"]
            /\ UNCHANGED <<pc, ctx, final_result, tts_task, tasks, out>>
    /\ UNCHANGED <<response_text, playback_lock, client_state, history>>

\* A binary frame on which the recognition engine raises: `except Exception`
\* logs it and the finally block runs cancel_tts.
ReceiveAudioRaises(s) ==
    /\ Backend
    /\ Receiving(s)
    /\ nframes' = nframes + 1
    /\ msg_type' = [msg_type EXCEPT ![s] = "bytes"]
    /\ EnterCancel(s, "finally", client_state[s], final_result[s])
    /\ UNCHANGED <<final_result, response_text, rec, playback_lock, client_state, history>>

\* A text frame that is not JSON: json.loads raises, `except Exception` logs it
\* and the finally block runs cancel_tts.
ReceiveMalformed(s) ==
    /\ Backend
    /\ Receiving(s)
    /\ nframes' = nframes + 1
    /\ msg_type' = [msg_type EXCEPT ![s] = "malformed"]
    /\ EnterCancel(s, "finally", client_state[s], final_result[s])
    /\ UNCHANGED <<final_result, response_text, rec, playback_lock, client_state, history>>

\* send_text of pong, partial_transcript or session_reset returns: `continue`,
\* or the end of the loop body.
LoopSent(s) ==
    /\ Backend
    /\ pc[s] \in {"send_pong", "send_partial", "send_reset"}
    /\ BackToReceive(s)
    /\ UNCHANGED <<ctx, rec, tts_task, tasks, playback_lock, client_state, out, history,
                   nframes>>

\* A send_text of the session loop raises (the client is gone): the exception
\* leaves the loop and the finally block runs cancel_tts.
LoopSendFails(s) ==
    /\ Backend
    /\ pc[s] \in {"send_pong", "send_partial", "send_reset", "send_final", "send_assistant"}
    /\ EnterCancel(s, "finally", client_state[s], final_result[s])
    /\ UNCHANGED <<msg_type, final_result, response_text, rec, playback_lock, client_state,
                   history, nframes>>

\* send_text of final_transcript returns: generate_response, then the
\* assistant_text frame.
FinalSent(s) ==
    /\ Backend
    /\ pc[s] = "send_final"
    /\ LET r == generate_response(history, final_result[s])
       IN  /\ history' = r.history
           /\ response_text' = [response_text EXCEPT ![s] = r.reply]
           /\ out' = [out EXCEPT ![s] = Append(@, Msg("assistant_text", r.reply, TurnOf(s)))]
    /\ pc' = [pc EXCEPT ![s] = "send_assistant"]
    /\ UNCHANGED <<ctx, msg_type, final_result, rec, tts_task, tasks, playback_lock,
                   client_state, nframes>>

\* send_text of assistant_text returns: asyncio.create_task(stream_tts()).
AssistantSent(s) ==
    /\ Backend
    /\ pc[s] = "send_assistant"
    /\ tasks' = [tasks EXCEPT ![s] = Append(@, NewTask(response_text[s]))]
    /\ tts_task' = [tts_task EXCEPT ![s] = Len(tasks[s]) + 1]
    /\ BackToReceive(s)
    /\ UNCHANGED <<ctx, rec, playback_lock, client_state, out, history, nframes>>

\* ---- stream_tts and SpeechSynthesizer.stream_speech ----------------------
TaskAt(s, k, where) ==
    /\ k \in 1..Len(tasks[s])
    /\ tasks[s][k].pc \in where
    /\ ~tasks[s][k].must_cancel

TaskFrame == <<pc, ctx, msg_type, final_result, response_text, rec, tts_task, client_state,
               history, nframes>>

\* First step of the task: stream_speech returns at once on a blank text, else
\* it hands _synthesize to the executor and waits for it.
TaskStart(s, k) ==
    /\ Backend
    /\ TaskAt(s, k, {"created"})
    /\ tasks' = [tasks EXCEPT ![s][k].pc =
                    IF Strip(tasks[s][k].text) = << >> THEN "finished" ELSE "synth"]
    /\ UNCHANGED <<TaskFrame, playback_lock, out>>

\* The executor returns the waveform: n chunks of 250 ms to yield.
SynthDone(s, k, n) ==
    /\ Backend
    /\ TaskAt(s, k, {"synth"})
    /\ tasks' = [tasks EXCEPT ![s][k] =
                    [@ EXCEPT !.pc = IF n = 0 THEN "finished" ELSE "sleep", !.left = n]]
    /\ UNCHANGED <<TaskFrame, playback_lock, out>>

\* The engine raises: the task ends with that exception.
SynthFail(s, k) ==
    /\ Backend
    /\ TaskAt(s, k, {"synth"})
    /\ tasks' = [tasks EXCEPT ![s][k].pc = "failed"]
    /\ UNCHANGED <<TaskFrame, playback_lock, out>>

\* asyncio.sleep(0) returns, the chunk is yielded, playback_lock is taken and
\* send_bytes is entered; it suspends before its write.
ChunkReady(s, k) ==
    /\ Backend
    /\ TaskAt(s, k, {"sleep"})
    /\ playback_lock[s] = 0
    /\ playback_lock' = [playback_lock EXCEPT ![s] = k]
    /\ tasks' = [tasks EXCEPT ![s][k].pc = "send_pre"]
    /\ UNCHANGED <<TaskFrame, out>>

\* send_bytes writes the frame and waits for the transport to drain.
ChunkWritten(s, k) ==
    /\ Backend
    /\ TaskAt(s, k, {"send_pre"})
    /\ out' = [out EXCEPT ![s] = Append(@, Msg("audio", << >>, k))]
    /\ tasks' = [tasks EXCEPT ![s][k].pc = "send_post"]
    /\ UNCHANGED <<TaskFrame, playback_lock>>

\* send_bytes returns: the lock is released, the next chunk is asked for; after
\* the last one stream_tts returns.
ChunkSent(s, k) ==
    /\ Backend
    /\ TaskAt(s, k, {"send_post"})
    /\ playback_lock' = [playback_lock EXCEPT ![s] = 0]
    /\ LET left == tasks[s][k].left - 1
       IN  tasks' = [tasks EXCEPT ![s][k] =
                        [@ EXCEPT !.pc = IF left = 0 THEN "finished" ELSE "sleep",
                                  !.left = left]]
    /\ UNCHANGED <<TaskFrame, out>>

\* CancelledError is thrown into the task at the await it is suspended in
\* (or before its first step); `async with` releases the lock on the way out.
TaskCancelled(s, k) ==
    /\ Backend
    /\ k \in 1..Len(tasks[s])
    /\ ~TaskDone(tasks[s][k])
    /\ tasks[s][k].must_cancel
    /\ tasks' = [tasks EXCEPT ![s][k] = [@ EXCEPT !.pc = "cancelled", !.left = 0]]
    /\ playback_lock' = [playback_lock EXCEPT ![s] = IF @ = k THEN 0 ELSE @]
    /\ UNCHANGED <<TaskFrame, out>>

\* ---- the event loop -------------------------------------------------------
TaskIds == 1..MaxFrames

\* What the recognizer may report as the partial text of an open utterance.
Partials == {<< >>, <<"hi">>}

\* The /ws endpoint of backend/main.py.
Step(s) ==
        \/ Accept(s)
        \/ ReceiveDisconnect(s)
        \/ ReceivePing(s)
        \/ \E type \in {"stop", "reset"} : ReceiveStopOrReset(s, type)
        \/ ReceiveOther(s)
        \/ \E partial \in Partials : ReceiveAudioPartial(s, partial)
        \/ \E final \in Texts : ReceiveAudioFinal(s, final)
        \/ ReceiveAudioRaises(s)
        \/ ReceiveMalformed(s)
        \/ LoopSent(s)
        \/ LoopSendFails(s)
        \/ TaskAwaited(s)
        \/ ClearSent(s)
        \/ FinalSent(s)
        \/ AssistantSent(s)
        \/ \E k \in TaskIds :
            \/ TaskStart(s, k)
            \/ \E n \in 0..MaxChunks : SynthDone(s, k, n)
            \/ SynthFail(s, k)
            \/ ChunkReady(s, k)
            \/ ChunkWritten(s, k)
            \/ ChunkSent(s, k)
            \/ TaskCancelled(s, k)

\* ---- ConversationPipeline (server/pipeline.py), audio_utils.py ------------
\* The int16 samples a binary frame may carry: none, one, two.
Chunks == {<< >>, <<1>>, <<2, 3>>}

RECURSIVE merge_chunks(_)
merge_chunks(chunks) ==
    IF chunks = << >> THEN << >> ELSE Head(chunks) \o merge_chunks(Tail(chunks))

has_audio(chunks) == \E i \in 1..Len(chunks) : Len(chunks[i]) > 0

\* int16_to_float32: every sample divided by 32768, kept as the pair of the
\* sample and the divisor.
int16_to_float32(audio) == [i \in 1..Len(audio) |-> <<audio[i], 32768>>]

\* Puts the new chunk in front of the buffer instead of behind it.
append_audio_front(chunks, pcm) == IF pcm = << >> THEN chunks ELSE <<pcm>> \o chunks

\* append_audio: an empty frame is dropped.
append_audio(chunks, pcm) == IF pcm = << >> THEN chunks ELSE Append(chunks, pcm)

\* SpeechToText.transcribe: the stripped text of what the engine heard.
transcribe(audio, heard) == IF audio = << >> THEN << >> ELSE Strip(heard)

\* ConversationalResponder.reply: the stripped continuation the language model
\* generated, or the fallback when that is empty.
reply(generated) ==
    IF Strip(generated) = << >> THEN <<"I'm here and listening.">> ELSE Strip(generated)

\* What process() returns for None.
NoResult == [transcript |-> None, reply |-> None, history |-> << >>]

\* process(): None, or the transcript, the reply and the history it leaves.
process(chunks, h, heard, generated) ==
    IF ~has_audio(chunks) THEN NoResult
    ELSE LET transcript == transcribe(int16_to_float32(merge_chunks(chunks)), heard)
         IN  IF transcript = << >> THEN NoResult
             ELSE [transcript |-> transcript,
                   reply |-> reply(generated),
                   history |-> h \o << <<"User:">> \o transcript,
                                       <<"Assistant:">> \o reply(generated) >>]

\* ---- audio_gateway and handle_control_message (server/app.py) ------------
\* A step of the /ws/audio endpoint: the server app runs.
Server == app = "server" /\ UNCHANGED <<bvars, uvars, fvars, app>>

\* accept, get_pipeline, start_utterance.
GAccept(s) ==
    /\ Server
    /\ g_pc[s] = "connecting"
    /\ g_pc' = [g_pc EXCEPT ![s] = "receive"]
    /\ g_chunks' = [g_chunks EXCEPT ![s] = << >>]
    /\ arrived' = [arrived EXCEPT ![s] = << >>]
    /\ UNCHANGED <<g_history, g_result, g_msg_type, g_out, nframes>>

GReceiving(s) == g_pc[s] = "receive" /\ nframes < MaxFrames

\* A binary frame.
GReceiveAudio(s, pcm) ==
    /\ Server
    /\ GReceiving(s)
    /\ nframes' = nframes + 1
    /\ g_chunks' = [g_chunks EXCEPT ![s] = append_audio(@, pcm)]
    /\ arrived' = [arrived EXCEPT ![s] = @ \o pcm]
    /\ g_msg_type' = [g_msg_type EXCEPT ![s] = "bytes"]
    /\ UNCHANGED <<g_pc, g_history, g_result, g_out>>

\* {"type": "start"}
GReceiveStart(s) ==
    /\ Server
    /\ GReceiving(s)
    /\ nframes' = nframes + 1
    /\ g_msg_type' = [g_msg_type EXCEPT ![s] = "start"]
    /\ g_chunks' = [g_chunks EXCEPT ![s] = << >>]
    /\ arrived' = [arrived EXCEPT ![s] = << >>]
    /\ UNCHANGED <<g_pc, g_history, g_result, g_out>>

\* {"type": "stop"}: process(), then the first send.
GReceiveStop(s, heard, generated) ==
    /\ Server
    /\ GReceiving(s)
    /\ nframes' = nframes + 1
    /\ g_msg_type' = [g_msg_type EXCEPT ![s] = "stop"]
    /\ LET result == process(g_chunks[s], g_history[s], heard, generated)
       IN  /\ g_result' = [g_result EXCEPT ![s] = result.reply]
           /\ IF result = NoResult THEN
                  /\ g_chunks' = [g_chunks EXCEPT ![s] = << >>]
                  /\ arrived' = [arrived EXCEPT ![s] = << >>]
                  /\ g_out' = [g_out EXCEPT ![s] = Append(@, Msg("transcript", << >>, 0))]
                  /\ g_pc' = [g_pc EXCEPT ![s] = "send_empty"]
                  /\ UNCHANGED g_history
              ELSE
                  /\ g_history' = [g_history EXCEPT ![s] = result.history]
                  /\ g_out' = [g_out EXCEPT ![s] =
                                  Append(@, Msg("transcript", result.transcript, 0))]
                  /\ g_pc' = [g_pc EXCEPT ![s] = "send_transcript"]
                  /\ UNCHANGED <<g_chunks, arrived>>

\* {"type": "stop"} with audio buffered, and an engine of process() raises: the
\* exception leaves handle_control_message, `except Exception` closes the
\* connection with code 1011 and str(exc) as the reason.
EngineError == <<"engine error">>

GReceiveStopRaises(s) ==
    /\ Server
    /\ GReceiving(s)
    /\ has_audio(g_chunks[s])
    /\ nframes' = nframes + 1
    /\ g_msg_type' = [g_msg_type EXCEPT ![s] = "stop"]
    /\ g_out' = [g_out EXCEPT ![s] = Append(@, Msg("close", EngineError, 1011))]
    /\ g_pc' = [g_pc EXCEPT ![s] = "closing"]
    /\ UNCHANGED <<g_chunks, g_history, g_result, arrived>>

\* `await websocket.close(...)` returns: audio_gateway returns.
GClosed(s) ==
    /\ Server
    /\ g_pc[s] = "closing"
    /\ g_pc' = [g_pc EXCEPT ![s] = "done"]
    /\ UNCHANGED <<g_chunks, g_history, g_result, g_msg_type, g_out, arrived, nframes>>

\* {"type": "reset"}
GReceiveReset(s) ==
    /\ Server
    /\ GReceiving(s)
    /\ nframes' = nframes + 1
    /\ g_chunks' = [g_chunks EXCEPT ![s] = << >>]
    /\ arrived' = [arrived EXCEPT ![s] = << >>]
    /\ g_history' = [g_history EXCEPT ![s] = << >>]
    /\ g_msg_type' = [g_msg_type EXCEPT ![s] = "reset"]
    /\ UNCHANGED <<g_pc, g_result, g_out>>

\* Any other type ("ping" is one): a warning is logged.
GReceiveOther(s, type) ==
    /\ Server
    /\ GReceiving(s)
    /\ nframes' = nframes + 1
    /\ g_msg_type' = [g_msg_type EXCEPT ![s] = type]
    /\ UNCHANGED <<g_pc, g_chunks, g_history, g_result, g_out, arrived>>

\* websocket.receive() raises WebSocketDisconnect.
GDisconnect(s) ==
    /\ Server
    /\ GReceiving(s)
    /\ nframes' = nframes + 1
    /\ g_pc' = [g_pc EXCEPT ![s] = "done"]
    /\ g_msg_type' = [g_msg_type EXCEPT ![s] = "disconnect"]
    /\ UNCHANGED <<g_chunks, g_history, g_result, g_out, arrived>>

\* A send of the stop handler returns: the next send, or start_utterance and
\* the return to receive.
GSent(s) ==
    /\ Server
    /\ g_pc[s] \in {"send_empty", "send_transcript", "send_response", "send_audio", "send_end"}
    /\ IF g_pc[s] = "send_transcript" THEN
           /\ g_out' = [g_out EXCEPT ![s] = Append(@, Msg("assistant_response", g_result[s], 0))]
           /\ g_pc' = [g_pc EXCEPT ![s] = "send_response"]
           /\ UNCHANGED <<g_chunks, arrived>>
       ELSE IF g_pc[s] = "send_response" THEN
           /\ g_out' = [g_out EXCEPT ![s] = Append(@, Msg("audio", << >>, 0))]
           /\ g_pc' = [g_pc EXCEPT ![s] = "send_audio"]
           /\ UNCHANGED <<g_chunks, arrived>>
       ELSE IF g_pc[s] = "send_audio" THEN
           /\ g_out' = [g_out EXCEPT ![s] = Append(@, Msg("assistant_audio_end", << >>, 0))]
           /\ g_pc' = [g_pc EXCEPT ![s] = "send_end"]
           /\ UNCHANGED <<g_chunks, arrived>>
       ELSE IF g_pc[s] = "send_end" THEN
           /\ g_chunks' = [g_chunks EXCEPT ![s] = << >>]
           /\ arrived' = [arrived EXCEPT ![s] = << >>]
           /\ g_pc' = [g_pc EXCEPT ![s] = "receive"]
           /\ UNCHANGED g_out
       ELSE
           /\ g_pc' = [g_pc EXCEPT ![s] = "receive"]
           /\ UNCHANGED <<g_chunks, g_out, arrived>>
    /\ UNCHANGED <<g_history, g_result, g_msg_type, nframes>>

\* The /ws/audio endpoint of server/app.py.
GStep(s) ==
        \/ GAccept(s)
        \/ \E pcm \in Chunks : GReceiveAudio(s, pcm)
        \/ GReceiveStart(s)
        \/ \E heard \in Texts, generated \in Texts : GReceiveStop(s, heard, generated)
        \/ GReceiveStopRaises(s)
        \/ GClosed(s)
        \/ GReceiveReset(s)
        \/ \E type \in {"ping", "unknown"} : GReceiveOther(s, type)
        \/ GDisconnect(s)
        \/ GSent(s)

\* Two connections served by one app.
Next == \E s \in Sessions : Step(s) \/ GStep(s)

Spec == Init /\ [][Next]_vars

\* One connection.
NextSolo == Step("A") \/ GStep("A")

SpecSolo == Init /\ [][NextSolo]_vars

\* One /ws connection under the scheduling of the asyncio event loop: a task
\* that was cancelled is run again and gets its CancelledError, a coroutine
\* whose awaited task is done is resumed, and the send of clear_audio_queue
\* returns or raises.
InitBackend == Idle /\ app = "backend"

NextBackend == Step("A")

Fairness ==
    /\ WF_vars(\E k \in TaskIds : TaskCancelled("A", k))
    /\ WF_vars(TaskAwaited("A"))
    /\ WF_vars(ClearSent("A"))

SpecFair == InitBackend /\ [][NextBackend]_vars /\ Fairness

\* ---- ConversationManager and ConversationPipeline driven on their own ----
\* What the caller may pass to generate_response.
UserTexts == Texts \cup {<<"time">>}

\* A call on the ConversationManager: only its history changes.
Manager ==
    /\ app = "manager"
    /\ ncalls < MaxCalls
    /\ ncalls' = ncalls + 1
    /\ UNCHANGED <<pc, ctx, msg_type, final_result, response_text, rec, tts_task, tasks,
                   playback_lock, client_state, out, gvars, fvars, nframes, app>>

\* conversation_manager.generate_response(text)
MGenerate(text) ==
    /\ Manager
    /\ LET r == generate_response(history, text)
       IN  /\ history' = r.history
           /\ appended' = IF Strip(text) = << >> THEN appended
                           ELSE appended \o <<Utterance("user", Strip(text)),
                                              Utterance("assistant", r.reply)>>

\* conversation_manager.reset()
MReset ==
    /\ Manager
    /\ history' = << >>
    /\ appended' = << >>

\* A call on the ConversationPipeline of "A": only _chunks and _history change.
Pipeline ==
    /\ app = "pipeline"
    /\ ncalls < MaxCalls
    /\ ncalls' = ncalls + 1
    /\ UNCHANGED <<bvars, g_pc, g_result, g_msg_type, g_out, appended, fvars, nframes, app>>

\* pipeline.append_audio(pcm)
PAppend(pcm) ==
    /\ Pipeline
    /\ g_chunks' = [g_chunks EXCEPT !["A"] = append_audio(@, pcm)]
    /\ arrived' = [arrived EXCEPT !["A"] = @ \o pcm]
    /\ UNCHANGED g_history

\* pipeline.start_utterance()
PStart ==
    /\ Pipeline
    /\ g_chunks' = [g_chunks EXCEPT !["A"] = << >>]
    /\ arrived' = [arrived EXCEPT !["A"] = << >>]
    /\ UNCHANGED g_history

\* pipeline.reset()
PReset ==
    /\ Pipeline
    /\ g_chunks' = [g_chunks EXCEPT !["A"] = << >>]
    /\ arrived' = [arrived EXCEPT !["A"] = << >>]
    /\ g_history' = [g_history EXCEPT !["A"] = << >>]

\* pipeline.process(): _chunks is left as it is.
PProcess(heard, generated) ==
    /\ Pipeline
    /\ LET result == process(g_chunks["A"], g_history["A"], heard, generated)
       IN  g_history' = IF result = NoResult THEN g_history
                        ELSE [g_history EXCEPT !["A"] = result.history]
    /\ UNCHANGED <<g_chunks, arrived>>

\* ---- PipelineFactory (server/app.py) driven on its own -------------------
\* `if self._stt is None` and its two siblings, always true.
IsNoneAlways(ref) == TRUE

\* `if self._stt is None`, lines 37, 39 and 41.
IsNone(ref) == ref = 0

\* What get_pipeline does to engine e when the constructor of engine `fail`
\* raises (0: none raises): e is constructed if it is found None and no
\* constructor before it raised.
Built(e, fail) ==
    /\ IsNone(f_engines[e])
    /\ fail = 0 \/ ~IsNone(f_engines[fail]) \/ e < fail

\* `await factory.get_pipeline()`.  The lock is free whenever it is asked
\* for (nothing awaits while it is held), so acquire() does not suspend and
\* the call runs from its first line to its return, or to the exception of
\* a constructor, in one step of the event loop.  A pipeline is the engines
\* it was given and the two lists its default_factory made for it.
FGet(fail) ==
    /\ app = "factory"
    /\ ncalls < MaxCalls
    /\ ncalls' = ncalls + 1
    /\ IF \E e \in 1..Len(Engines) : f_engines[e] = 0 THEN
           /\ f_engines' = [e \in 1..Len(Engines) |->
                               IF Built(e, fail) THEN constructed[e] + 1 ELSE f_engines[e]]
           /\ constructed' = [e \in 1..Len(Engines) |->
                                 IF Built(e, fail) THEN constructed[e] + 1 ELSE constructed[e]]
       ELSE UNCHANGED <<f_engines, constructed>>
    /\ pipelines' =
           IF \E e \in 1..Len(Engines) : f_engines'[e] = 0 THEN pipelines
           ELSE Append(pipelines,
                       [engines |-> f_engines',
                        _chunks |-> [ref |-> 2 * Len(pipelines) + 1, items |-> << >>],
                        _history |-> [ref |-> 2 * Len(pipelines) + 2, items |-> << >>]])
    /\ UNCHANGED <<bvars, gvars, appended, nframes, app>>

NextUnit ==
    \/ \E fail \in 0..Len(Engines) : FGet(fail)
    \/ \E text \in UserTexts : MGenerate(text)
    \/ MReset
    \/ \E pcm \in Chunks : PAppend(pcm)
    \/ PStart
    \/ PReset
    \/ \E heard \in Texts, generated \in Texts : PProcess(heard, generated)

InitUnit == Idle /\ app \in {"manager", "pipeline", "factory"}

SpecUnit == InitUnit /\ [][NextUnit]_vars

\* ---- what the claims speak of ---------------------------------------------
LoopSends == {"send_pong", "send_partial", "send_clear", "send_reset", "send_final",
              "send_assistant"}

\* A stream_tts task is inside `await websocket.send_bytes(chunk)`.
TaskSending(s) == \E k \in 1..Len(tasks[s]) : tasks[s][k].pc \in {"send_pre", "send_post"}

Positions(s, type) == {i \in 1..Len(out[s]) : out[s][i].type = type}

AudioOf(s, k) == {i \in Positions(s, "audio") : out[s][i].turn = k}

TurnTypes == {"final_transcript", "assistant_text", "audio"}

\* The session loop of s takes a frame that carries `type`.
Receives(s, type) == pc[s] = "receive" /\ pc'[s] # "receive" /\ msg_type'[s] = type

\* C1: at most one stream_tts task of a connection is not finished, it is the
\* one tts_task refers to, and from the return of cancel_tts to create_task
\* there is none: a task is created only once the previous one is done.
C1_AtMostOneSynthesisTask ==
    \A s \in Sessions :
        /\ Cardinality(Unfinished(s)) <= 1
        /\ Unfinished(s) \subseteq {tts_task[s]}
        /\ pc[s] \in {"send_clear", "send_reset", "send_final", "send_assistant", "done"}
            => Unfinished(s) = {}

\* A second reply is being synthesized after the first was cancelled.
C1_Witness ==
    /\ Len(tasks["A"]) = 2
    /\ tasks["A"][1].pc = "cancelled"
    /\ tasks["A"][2].pc = "synth"

\* C2: an audio chunk written after a clear_audio_queue belongs to a reply
\* whose assistant_text was written after that clear_audio_queue: no chunk of
\* a task cancelled by cancel_tts follows the notification of its cancellation.
C2_NoStaleChunkAfterClear ==
    \A s \in Sessions :
        LET o == out[s]
        IN  \A j \in 1..Len(o) :
                o[j].type = "audio" =>
                    \A i \in 1..(j - 1) :
                        o[i].type = "clear_audio_queue" =>
                            \E m \in (i + 1)..(j - 1) :
                                o[m].type = "assistant_text" /\ o[m].turn = o[j].turn

\* A reply was cancelled after one of its chunks was written, the client was
\* told to clear its queue, and the next reply has written a chunk.
C2_Witness ==
    /\ Len(tasks["A"]) = 2
    /\ tasks["A"][1].pc = "cancelled"
    /\ \E i \in AudioOf("A", 1) : \E j \in Positions("A", "clear_audio_queue") :
          i < j /\ \E n \in AudioOf("A", 2) : j < n

\* C3: a step of one connection's handler leaves the conversation history and
\* the recognizer state that another connected session observes unchanged.
C3_NoCrossSessionEffect ==
    [][\A a \in Sessions : \A b \in Sessions \ {a} :
          (pc'[a] # pc[a] /\ client_state[b] = "CONNECTED")
              => (history' = history /\ rec'[b] = rec[b])]_vars

\* C4: the step that takes a finalized transcript while no synthesis task is
\* active writes no clear_audio_queue.
C4_NoClearWithoutActiveSynthesis ==
    [][\A s \in Sessions :
          (Receives(s, "bytes") /\ Truthy(final_result'[s])
             /\ ~(tts_task[s] # 0 /\ ~TaskDone(tasks[s][tts_task[s]])))
              => \A i \in (Len(out[s]) + 1)..Len(out'[s]) :
                    out'[s][i].type # "clear_audio_queue"]_vars

\* C5: a stop that arrives while a reply is streaming keeps the conversation
\* history of the earlier turns.
C5_StopKeepsHistory ==
    [][\A s \in Sessions :
          (Receives(s, "stop") /\ tts_task[s] # 0 /\ ~TaskDone(tasks[s][tts_task[s]]))
              => history' = history]_vars

\* C6: a send of the session loop and a send_bytes of the synthesis task are
\* never in progress on the same connection at the same time.
C6_SingleWriter ==
    \A s \in Sessions : ~(pc[s] \in LoopSends /\ TaskSending(s))

\* The frame written just before frame j of the gateway connection s has `type`.
GPrevious(s, j, type) == j > 1 /\ g_out[s][j - 1].type = type

\* C7: within a /ws connection, a reply text follows the transcript of its
\* turn, an audio chunk follows the reply text of its turn, and no transcript,
\* reply text or audio chunk of an earlier turn follows one of a later turn
\* (partial transcripts of the utterance being heard are not frames of a turn).
\* Within a /ws/audio connection the reply text comes right after a non-empty
\* transcript, the audio right after the reply text, the end marker right
\* after the audio.
C7_TurnOrder ==
    \A s \in Sessions :
        /\ \A j \in 1..Len(g_out[s]) :
              /\ g_out[s][j].type = "assistant_response"
                    => GPrevious(s, j, "transcript") /\ g_out[s][j - 1].text # << >>
              /\ g_out[s][j].type = "audio" => GPrevious(s, j, "assistant_response")
              /\ g_out[s][j].type = "assistant_audio_end" => GPrevious(s, j, "audio")
        /\ LET o == out[s]
           IN  \A j \in 1..Len(o) :
                 /\ o[j].type = "assistant_text" =>
                       \E i \in 1..(j - 1) :
                           o[i].type = "final_transcript" /\ o[i].turn = o[j].turn
                 /\ o[j].type = "audio" =>
                       \E i \in 1..(j - 1) :
                           o[i].type = "assistant_text" /\ o[i].turn = o[j].turn
                 /\ o[j].type \in TurnTypes =>
                       \A i \in 1..(j - 1) :
                           o[i].type \in TurnTypes => o[i].turn <= o[j].turn

\* The second turn writes its transcript after a chunk of the first reply.
C7_Witness ==
    \E i \in AudioOf("A", 1) : \E j \in Positions("A", "final_transcript") :
        i < j /\ out["A"][j].turn = 2 /\ AudioOf("A", 2) # {}

\* C8: once a reply has been streamed to its last chunk and the session loop
\* is back at receive, an assistant_audio_end follows the last chunk.
C8_AudioEndAfterReply ==
    \A s \in Sessions : \A k \in 1..Len(tasks[s]) :
        (tasks[s][k].pc = "finished" /\ AudioOf(s, k) # {} /\ pc[s] = "receive")
            => \E e \in Positions(s, "assistant_audio_end") :
                  \A i \in AudioOf(s, k) : i < e

\* C9: no assistant_text is written and no synthesis task is started for a
\* finalized transcript that is empty after trimming.
C9_NoReplyToBlankTranscript ==
    \A s \in Sessions :
        pc[s] = "send_assistant" => Strip(final_result[s]) # << >>

\* C10: when the handling of a reset returns to receive, the recognizer is
\* fresh, the conversation history is empty and no synthesis task is active.
C10_ResetClearsSession ==
    [][\A s \in Sessions :
          (pc[s] = "send_reset" /\ pc'[s] = "receive" /\ msg_type[s] = "reset")
              => /\ rec'[s] = 0
                 /\ history' = << >>
                 /\ tts_task'[s] = 0
                 /\ \A k \in 1..Len(tasks'[s]) : TaskDone(tasks'[s][k])]_vars

\* The gateway loop of s takes a control message of `type`.
GReceives(s, type) ==
    app = "server" /\ g_pc[s] = "receive" /\ nframes' = nframes + 1 /\ g_msg_type'[s] = type

\* C11: the handling of a reset writes a session_reset before the loop takes
\* the next frame, on /ws and on /ws/audio, and leaves the recognizer fresh.
C11_ResetAcknowledged ==
    [][\A s \in Sessions :
          /\ (msg_type[s] = "reset" /\ pc[s] # "receive" /\ pc'[s] = "receive")
                => /\ out[s][Len(out[s])].type = "session_reset"
                   /\ rec'[s] = 0
          /\ GReceives(s, "reset")
                => /\ Len(g_out'[s]) > Len(g_out[s])
                   /\ g_out'[s][Len(g_out'[s])].type = "session_reset"]_vars

\* The last n elements of q, all of q if it has fewer.
LastN(q, n) == IF Len(q) > n THEN SubSeq(q, Len(q) - n + 1, Len(q)) ELSE q

\* C12: after any sequence of generate_response and reset calls the history
\* of the ConversationManager holds at most max_history turns, and they are
\* the most recently appended ones in the order they were appended.
C12_HistoryIsFifoBounded ==
    app = "manager" =>
        /\ Len(history) <= max_history
        /\ history = LastN(appended, max_history)

\* More turns were appended than the history keeps: the oldest were dropped.
C12_Witness ==
    app = "manager" /\ Len(appended) > max_history /\ Len(history) = max_history

\* C13: the _history of a ConversationPipeline never holds more than
\* _max_history entries.
C13_GatewayHistoryBounded ==
    \A s \in Sessions : Len(g_history[s]) <= _max_history

\* C14: an audio frame or a stop on which an engine raises does not end the
\* session: the /ws handler does not enter its finally block on a binary
\* frame, and the /ws/audio gateway does not close the connection for an
\* engine error.
C14_EngineFailureNotFatal ==
    [][\A s \in Sessions :
          /\ Receives(s, "bytes") => ctx'[s] # "finally"
          /\ \A i \in 1..Len(g_out'[s]) :
                ~(g_out'[s][i].type = "close" /\ g_out'[s][i].text = EngineError)]_vars

\* C15: once websocket_endpoint has returned, every stream_tts task of the
\* connection is done, tts_task is None, playback_lock is free, and no frame
\* is written to the connection any more.
C15_CleanupOnEveryExit ==
    [][\A s \in Sessions :
          pc'[s] = "done" =>
              /\ \A k \in 1..Len(tasks'[s]) : TaskDone(tasks'[s][k])
              /\ tts_task'[s] = 0
              /\ playback_lock'[s] = 0
              /\ pc[s] = "done" => out'[s] = out[s]]_vars

\* The handler has returned after a frame that is not JSON arrived while a
\* reply was being sent: the task was cancelled inside send_bytes.
C15_Witness ==
    /\ pc["A"] = "done"
    /\ msg_type["A"] = "malformed"
    /\ Len(tasks["A"]) = 1
    /\ tasks["A"][1].pc = "cancelled"
    /\ AudioOf("A", 1) # {}

\* C16: the step that takes a ping writes a pong to the connection and leaves
\* the recognizer or audio buffer, the conversation history and the synthesis
\* tasks as they are, on /ws and on /ws/audio.
C16_PingAnswered ==
    [][\A s \in Sessions :
          /\ Receives(s, "ping")
                => /\ out'[s] = Append(out[s], Msg("pong", << >>, 0))
                   /\ rec'[s] = rec[s] /\ history' = history
                   /\ tts_task'[s] = tts_task[s] /\ tasks'[s] = tasks[s]
          /\ GReceives(s, "ping")
                => /\ g_out'[s] = Append(g_out[s], Msg("pong", << >>, 0))
                   /\ g_chunks'[s] = g_chunks[s] /\ g_history'[s] = g_history[s]]_vars

\* C17: reply audio is written by a task scheduled on its own, never by the
\* session loop: the step that writes an audio frame leaves the handler of
\* the connection where it is, free to take the next inbound frame.
C17_SynthesisIsConcurrent ==
    [][\A s \in Sessions :
          /\ (Len(out'[s]) > Len(out[s]) /\ out'[s][Len(out'[s])].type = "audio")
                => pc'[s] = pc[s]
          /\ (Len(g_out'[s]) > Len(g_out[s]) /\ g_out'[s][Len(g_out'[s])].type = "audio")
                => g_pc'[s] = g_pc[s]]_vars

\* C18: the samples process() hands to recognition are the samples of the
\* frames appended since the utterance began, in the order they arrived, each
\* exactly once; the buffer holds no empty chunk.
C18_MergeKeepsArrivalOrder ==
    \A s \in Sessions :
        /\ int16_to_float32(merge_chunks(g_chunks[s])) = int16_to_float32(arrived[s])
        /\ \A i \in 1..Len(g_chunks[s]) : g_chunks[s][i] # << >>

\* process() has run on a buffer of two chunks of different lengths.
C18_Witness ==
    /\ app = "pipeline"
    /\ g_chunks["A"] = << <<2, 3>>, <<1>> >>
    /\ g_history["A"] # << >>

\* C19: the step that takes a text frame of an unknown type writes nothing to
\* the connection, leaves the recognizer or audio buffer, the conversation
\* history and the synthesis tasks as they are, and leaves the loop at
\* receive, on /ws and on /ws/audio.
C19_UnknownControlIgnored ==
    [][\A s \in Sessions :
          /\ (app = "backend" /\ pc[s] = "receive" /\ nframes' = nframes + 1
                /\ msg_type'[s] = "unknown")
                => /\ pc'[s] = "receive" /\ out'[s] = out[s]
                   /\ rec'[s] = rec[s] /\ history' = history
                   /\ tts_task'[s] = tts_task[s] /\ tasks'[s] = tasks[s]
          /\ GReceives(s, "unknown")
                => /\ g_pc'[s] = "receive" /\ g_out'[s] = g_out[s]
                   /\ g_chunks'[s] = g_chunks[s] /\ g_history'[s] = g_history[s]]_vars

\* A frame of an unknown type was taken while the history held a turn and
\* the reply was inside send_bytes.
C19_Witness ==
    /\ pc["A"] = "receive"
    /\ msg_type["A"] = "unknown"
    /\ history # << >>
    /\ tts_task["A"] = 1
    /\ tasks["A"][1].pc = "send_post"

\* C20: cancel_tts never waits for ever, neither for the task it cancelled
\* nor for the send of clear_audio_queue, and when it has returned tts_task is
\* None and playback_lock is free.
C20_CancelTerminates ==
    /\ []<>(\A s \in Sessions : pc[s] \notin {"cancel_wait", "send_clear"})
    /\ [](\A s \in Sessions :
            pc[s] \in {"send_final", "send_reset", "done"}
                => tts_task[s] = 0 /\ playback_lock[s] = 0)

\* cancel_tts waits for a task it cancelled inside the guarded send_bytes of
\* its last chunk.
C20_Witness ==
    /\ pc["A"] = "cancel_wait"
    /\ tasks["A"][1].must_cancel
    /\ tasks["A"][1].pc = "send_post"
    /\ tasks["A"][1].left = 1
    /\ playback_lock["A"] = 1

\* C21: a stream_tts task that ended with an engine error stays as it is and
\* no audio chunk of its reply is written any more; the step in which it
\* fails leaves the session loop, the frames written and the history as they
\* are; and the step that takes the next finalized transcript gets through
\* cancel_tts without waiting and without entering the finally block.
C21_SynthesisFailureIsTurnLocal ==
    [][\A s \in Sessions :
          /\ \A k \in 1..Len(tasks[s]) :
                /\ tasks[s][k].pc = "failed"
                      => /\ tasks'[s][k] = tasks[s][k]
                         /\ \A i \in (Len(out[s]) + 1)..Len(out'[s]) :
                               ~(out'[s][i].type = "audio" /\ out'[s][i].turn = k)
                /\ (tasks[s][k].pc # "failed" /\ tasks'[s][k].pc = "failed")
                      => /\ pc'[s] = pc[s] /\ tts_task'[s] = tts_task[s]
                         /\ out'[s] = out[s] /\ history' = history
                         /\ playback_lock'[s] = playback_lock[s]
          /\ (Receives(s, "bytes") /\ Truthy(final_result'[s]) /\ tts_task[s] # 0
                /\ tasks[s][tts_task[s]].pc = "failed")
                => pc'[s] = "send_clear" /\ ctx'[s] = "final" /\ tts_task'[s] = 0]_vars

\* The first reply's task ended with an engine error, a frame was handled
\* after that, and the reply of the next turn is being synthesized.
C21_Witness ==
    /\ Len(tasks["A"]) = 2
    /\ tasks["A"][1].pc = "failed"
    /\ tasks["A"][2].pc = "synth"
    /\ tts_task["A"] = 2
    /\ nframes = 3

\* C22: whatever the order of the get_pipeline calls and whichever
\* constructors raised, no engine class was constructed more than once, and
\* the pipelines returned all hold the factory's three engines, each with
\* empty lists that no other pipeline holds.
C22_EnginesConstructedOnce ==
    /\ \A e \in 1..Len(Engines) : constructed[e] <= 1
    /\ \A i \in 1..Len(pipelines) :
          /\ pipelines[i].engines = f_engines
          /\ \A e \in 1..Len(Engines) : pipelines[i].engines[e] # 0
          /\ pipelines[i]._chunks.items = << >> /\ pipelines[i]._history.items = << >>
          /\ pipelines[i]._chunks.ref # pipelines[i]._history.ref
          /\ \A j \in 1..Len(pipelines) :
                j # i => /\ pipelines[j]._chunks.ref # pipelines[i]._chunks.ref
                         /\ pipelines[j]._chunks.ref # pipelines[i]._history.ref
                         /\ pipelines[j]._history.ref # pipelines[i]._history.ref

\* Two calls ended with a constructor's exception and two returned a pipeline.
C22_Witness ==
    app = "factory" /\ ncalls = 4 /\ Len(pipelines) = 2

====
